---- MODULE Spec2Model ----
(***************************************************************************)
(* The games REST resource of server/routes/games.py over the Game,       *)
(* Publisher and Category models of server/models.                         *)
(*                                                                         *)
(* A request is two steps: the handler runs and returns its response       *)
(* (pc = "responded"), then the request ends and the scoped database       *)
(* session is released (pc = "idle").  `games` is the committed table,     *)
(* `session` the uncommitted entity state the session holds.               *)
(***************************************************************************)
EXTENDS Integers, Sequences, FiniteSets, TLC

VARIABLES
    games,       \* the committed games table: id -> row
    publishers,  \* the committed publishers table: id -> name
    categories,  \* the committed categories table: id -> name
    session,     \* the uncommitted entity state of the request's session
    pc,          \* "idle", or "responded" once the handler has returned
    req,         \* the request being served
    resp,        \* the response the handler returned
    before,      \* history: the games table as the request found it
    deleted      \* history: ids deleted by a completed request and not created since

vars == <<games, publishers, categories, session, pc, req, resp, before, deleted>>

\* Primary keys 1..MaxGameId are available to the games table.
MaxGameId == 2

GameIds == 1..MaxGameId

-----------------------------------------------------------------------------
\* JSON values.  A string is the sequence of its characters.

JNull == [t |-> "null", s |-> <<>>, n |-> 0]

Absent == [t |-> "absent", s |-> <<>>, n |-> 0]

JStr(chars) == [t |-> "str", s |-> chars, n |-> 0]

JNum(k) == [t |-> "num", s |-> <<>>, n |-> k]

IsSpace(c) == c = " "

RECURSIVE LStrip(_)
LStrip(s) == IF s # <<>> /\ IsSpace(Head(s)) THEN LStrip(Tail(s)) ELSE s

RECURSIVE RStrip(_)
RStrip(s) ==
    IF s # <<>> /\ IsSpace(s[Len(s)]) THEN RStrip(SubSeq(s, 1, Len(s) - 1)) ELSE s

\* str.strip()
Strip(s) == RStrip(LStrip(s))

-----------------------------------------------------------------------------
\* Validation helper and the Game validators.

NoError == [msg |-> "", field |-> "", min |-> 0, missing |-> <<>>]

Error(msg) == [msg |-> msg, field |-> "", min |-> 0, missing |-> <<>>]

ValueError(field_name, msg, min_length) ==
    [msg |-> msg, field |-> field_name, min |-> min_length, missing |-> <<>>]

Valid(value) == [ok |-> TRUE, value |-> value, error |-> NoError]

Raise(value, error) == [ok |-> FALSE, value |-> value, error |-> error]

\* Faulty variant of validate_string_length: the length is taken unstripped.
validate_string_length_Unstripped(field_name, value, min_length, allow_none) ==
    IF value.t = "null"
    THEN IF allow_none
         THEN Valid(value)
         ELSE Raise(value, ValueError(field_name, "cannot be empty", 0))
    ELSE IF value.t # "str"
    THEN Raise(value, ValueError(field_name, "must be a string", 0))
    ELSE IF Len(value.s) < min_length
    THEN Raise(value, ValueError(field_name, "must be at least N characters", min_length))
    ELSE Valid(value)

validate_string_length(field_name, value, min_length, allow_none) ==
    IF value.t = "null"
    THEN IF allow_none
         THEN Valid(value)
         ELSE Raise(value, ValueError(field_name, "cannot be empty", 0))
    ELSE IF value.t # "str"
    THEN Raise(value, ValueError(field_name, "must be a string", 0))
    ELSE IF Len(Strip(value.s)) < min_length
    THEN Raise(value, ValueError(field_name, "must be at least N characters", min_length))
    ELSE Valid(value)

\* Game.validate_name, the validator of Game.title
validate_name(name) == validate_string_length("Game title", name, 2, FALSE)

\* Faulty variant of validate_description: None is not passed through.
validate_description_Strict(description) ==
    validate_string_length("Description", description, 10, FALSE)

\* Game.validate_description
validate_description(description) ==
    IF description.t # "null"
    THEN validate_string_length("Description", description, 10, TRUE)
    ELSE Valid(description)

-----------------------------------------------------------------------------
\* Rows and their projection.

Row(title, description, star_rating, category_id, publisher_id) ==
    [title |-> title, description |-> description, star_rating |-> star_rating,
     category_id |-> category_id, publisher_id |-> publisher_id]

\* The {id, name} summary of a related row: a set holding it, empty for None.
Summary(table, id) ==
    IF id \in DOMAIN table THEN {[id |-> id, name |-> table[id]]} ELSE {}

\* Game.to_dict
to_dict(id, game) ==
    [id |-> id,
     title |-> game.title,
     description |-> game.description,
     publisher |-> Summary(publishers, game.publisher_id),
     category |-> Summary(categories, game.category_id),
     starRating |-> game.star_rating]

\* Faulty variant of get_games_base_query: inner joins.
get_games_base_query_Inner(table) ==
    {<<id, table[id]>> : id \in {i \in DOMAIN table :
                                    /\ table[i].publisher_id \in DOMAIN publishers
                                    /\ table[i].category_id \in DOMAIN categories}}

\* get_games_base_query(): Game outer-joined to Publisher and Category, so every
\* row of `table` is returned whether or not its related rows exist.
get_games_base_query(table) == {<<id, table[id]>> : id \in DOMAIN table}

-----------------------------------------------------------------------------
\* Responses.

Response(status, error, projected) ==
    [status |-> status, error |-> error, games |-> projected, message |-> ""]

ErrorResponse(status, error) == Response(status, error, {})

\* The session holds no uncommitted entity state.
Clean == <<>>

\* The session holds the modified attributes of game `id`, when they differ
\* from the committed row.
Dirty(id, game) == IF game = games[id] THEN Clean ELSE (id :> game)

\* What a handler leaves behind: its response, the committed table and the
\* session's uncommitted state.
Outcome(response, table, sess) == [resp |-> response, games |-> table, session |-> sess]

\* db.session.rollback() followed by an error response
RolledBack(status, error) == Outcome(ErrorResponse(status, error), games, Clean)

-----------------------------------------------------------------------------
\* Request bodies: request.get_json(force=True, silent=True).

Has(data, field) == data[field].t # "absent"

required_fields == <<"title", "description", "category_id", "publisher_id">>

AllFields == {"title", "description", "star_rating", "category_id", "publisher_id"}

\* Faulty variant of IsEmpty: only a missing body counts, `data is None`.
IsEmpty_OnlyNone(data) == FALSE

\* `not data` for a JSON object: it has no key
IsEmpty(data) == \A f \in AllFields : ~Has(data, f)

\* Faulty variant of missing_fields: publisher_id is not required.
missing_fields_PublisherOptional(data) ==
    SelectSeq(<<"title", "description", "category_id">>, LAMBDA f : ~Has(data, f))

missing_fields(data) == SelectSeq(required_fields, LAMBDA f : ~Has(data, f))

\* The flush of a row: the NOT NULL constraint of games.description.
IntegrityOk(game) == game.description.t # "null"

-----------------------------------------------------------------------------
\* The handlers, each as the outcome it computes from the committed table.

\* GET /api/games
get_games ==
    Response(200, NoError, {to_dict(r[1], r[2]) : r \in get_games_base_query(games)})

\* Faulty variant of get_game: the query is not filtered by id.
get_game_Unfiltered(id) ==
    LET game_query == get_games_base_query(games)
    IN  IF game_query = {}
        THEN ErrorResponse(404, Error("Game not found"))
        ELSE LET r == CHOOSE r \in game_query : TRUE
             IN  Response(200, NoError, {to_dict(r[1], r[2])})

\* GET /api/games/<id>
get_game(id) ==
    LET game_query == {r \in get_games_base_query(games) : r[1] = id}
    IN  IF game_query = {}
        THEN ErrorResponse(404, Error("Game not found"))
        ELSE Response(200, NoError, {to_dict(r[1], r[2]) : r \in game_query})

\* Faulty variant of NewGame: the title is stored stripped.
NewGame_Trimmed(data) ==
    LET title == validate_name(data.title)
        description == validate_description(data.description)
    IN  IF ~title.ok THEN Raise(JNull, title.error)
        ELSE IF ~description.ok THEN Raise(JNull, description.error)
        ELSE Valid(Row(JStr(Strip(title.value.s)), description.value,
                       IF Has(data, "star_rating") THEN data.star_rating ELSE JNull,
                       data.category_id.n, data.publisher_id.n))

\* Game(title=..., description=..., category_id=..., publisher_id=...,
\* star_rating=data.get('star_rating')): the validators run as the attributes
\* are set, title first.
NewGame(data) ==
    LET title == validate_name(data.title)
        description == validate_description(data.description)
    IN  IF ~title.ok THEN Raise(JNull, title.error)
        ELSE IF ~description.ok THEN Raise(JNull, description.error)
        ELSE Valid(Row(title.value, description.value,
                       IF Has(data, "star_rating") THEN data.star_rating ELSE JNull,
                       data.category_id.n, data.publisher_id.n))

\* create_game: the insert, its commit and the 201 response.
InsertGame(data, new_id) ==
    LET new_game == NewGame(data)
    IN  IF ~new_game.ok
        THEN RolledBack(400, new_game.error)
        ELSE IF ~IntegrityOk(new_game.value)
        THEN RolledBack(409, Error("Database integrity error"))
        ELSE Outcome(Response(201, NoError, {to_dict(new_id, new_game.value)}),
                     games @@ (new_id :> new_game.value), Clean)

\* Faulty variant of CheckReferences: the fields are validated before the
\* publisher and the category are looked up.
CheckReferences_AfterValidation(data, new_id) ==
    IF ~NewGame(data).ok
    THEN RolledBack(400, NewGame(data).error)
    ELSE IF data.publisher_id.n \notin DOMAIN publishers
    THEN Outcome(ErrorResponse(404, Error("Publisher not found")), games, Clean)
    ELSE IF data.category_id.n \notin DOMAIN categories
    THEN Outcome(ErrorResponse(404, Error("Category not found")), games, Clean)
    ELSE InsertGame(data, new_id)

\* Faulty variant of CheckReferences: the category is looked up first.
CheckReferences_CategoryFirst(data, new_id) ==
    IF data.category_id.n \notin DOMAIN categories
    THEN Outcome(ErrorResponse(404, Error("Category not found")), games, Clean)
    ELSE IF data.publisher_id.n \notin DOMAIN publishers
    THEN Outcome(ErrorResponse(404, Error("Publisher not found")), games, Clean)
    ELSE InsertGame(data, new_id)

\* create_game: the publisher and the category must exist.
CheckReferences(data, new_id) ==
    IF data.publisher_id.n \notin DOMAIN publishers
    THEN Outcome(ErrorResponse(404, Error("Publisher not found")), games, Clean)
    ELSE IF data.category_id.n \notin DOMAIN categories
    THEN Outcome(ErrorResponse(404, Error("Category not found")), games, Clean)
    ELSE InsertGame(data, new_id)

\* POST /api/games; new_id is the primary key the table assigns on insert.
create_game(data, new_id) ==
    IF data.kind = "none" \/ (data.kind = "object" /\ IsEmpty(data))
    THEN Outcome(ErrorResponse(400, Error("No JSON data provided")), games, Clean)
    ELSE IF data.kind # "object"
    THEN RolledBack(500, Error("Internal server error"))
    ELSE IF missing_fields(data) # <<>>
    THEN Outcome(ErrorResponse(400, [Error("Missing required fields") EXCEPT
                                         !.missing = missing_fields(data)]),
                 games, Clean)
    ELSE CheckReferences(data, new_id)

\* The commit of update_game and the response after it.
CommitUpdate(id, game) ==
    IF ~IntegrityOk(game)
    THEN RolledBack(409, Error("Database integrity error"))
    ELSE Outcome(Response(200, NoError, {to_dict(id, game)}),
                 [games EXCEPT ![id] = game], Clean)

\* Faulty variant of UpdateCategory: the category is assigned without being
\* looked up.
UpdateCategory_Unchecked(id, data, game) ==
    IF ~Has(data, "category_id")
    THEN CommitUpdate(id, game)
    ELSE CommitUpdate(id, [game EXCEPT !.category_id = data.category_id.n])

\* update_game from the category check on; the Category query flushes the
\* pending row first.
UpdateCategory(id, data, game) ==
    IF ~Has(data, "category_id")
    THEN CommitUpdate(id, game)
    ELSE IF ~IntegrityOk(game)
    THEN RolledBack(409, Error("Database integrity error"))
    ELSE IF data.category_id.n \notin DOMAIN categories
    THEN Outcome(ErrorResponse(404, Error("Category not found")), games, Dirty(id, game))
    ELSE CommitUpdate(id, [game EXCEPT !.category_id = data.category_id.n])

\* Faulty variant of UpdatePublisher: the row flushed by the Publisher query
\* is committed, so the 404 leaves the assigned fields in the table.
UpdatePublisher_Autocommit(id, data, game) ==
    IF ~Has(data, "publisher_id")
    THEN UpdateCategory(id, data, game)
    ELSE IF ~IntegrityOk(game)
    THEN RolledBack(409, Error("Database integrity error"))
    ELSE IF data.publisher_id.n \notin DOMAIN publishers
    THEN Outcome(ErrorResponse(404, Error("Publisher not found")),
                 [games EXCEPT ![id] = game], Clean)
    ELSE UpdateCategory(id, data, [game EXCEPT !.publisher_id = data.publisher_id.n])

\* update_game from the publisher check on; the Publisher query flushes the
\* pending row first.
UpdatePublisher(id, data, game) ==
    IF ~Has(data, "publisher_id")
    THEN UpdateCategory(id, data, game)
    ELSE IF ~IntegrityOk(game)
    THEN RolledBack(409, Error("Database integrity error"))
    ELSE IF data.publisher_id.n \notin DOMAIN publishers
    THEN Outcome(ErrorResponse(404, Error("Publisher not found")), games, Dirty(id, game))
    ELSE UpdateCategory(id, data, [game EXCEPT !.publisher_id = data.publisher_id.n])

\* Faulty variant of UpdateFields: star_rating is read with data.get, so a
\* body without it resets the rating to None.
UpdateFields_GetRating(id, data, game) ==
    LET title == IF Has(data, "title") THEN validate_name(data.title) ELSE Valid(game.title)
        description == IF Has(data, "description")
                       THEN validate_description(data.description)
                       ELSE Valid(game.description)
        star_rating == IF Has(data, "star_rating") THEN data.star_rating ELSE JNull
    IN  IF ~title.ok THEN RolledBack(400, title.error)
        ELSE IF ~description.ok THEN RolledBack(400, description.error)
        ELSE UpdatePublisher(id, data,
                 [game EXCEPT !.title = title.value, !.description = description.value,
                              !.star_rating = star_rating])

\* update_game: the assignments of title, description and star_rating.
UpdateFields(id, data, game) ==
    LET title == IF Has(data, "title") THEN validate_name(data.title) ELSE Valid(game.title)
        description == IF Has(data, "description")
                       THEN validate_description(data.description)
                       ELSE Valid(game.description)
        star_rating == IF Has(data, "star_rating") THEN data.star_rating ELSE game.star_rating
    IN  IF ~title.ok THEN RolledBack(400, title.error)
        ELSE IF ~description.ok THEN RolledBack(400, description.error)
        ELSE UpdatePublisher(id, data,
                 [game EXCEPT !.title = title.value, !.description = description.value,
                              !.star_rating = star_rating])

\* Faulty variant of update_game: the body is parsed before the game is loaded.
update_game_BodyFirst(id, data) ==
    IF data.kind = "none" \/ (data.kind = "object" /\ IsEmpty(data))
    THEN Outcome(ErrorResponse(400, Error("No JSON data provided")), games, Clean)
    ELSE IF id \notin DOMAIN games
    THEN Outcome(ErrorResponse(404, Error("Game not found")), games, Clean)
    ELSE IF data.kind # "object"
    THEN RolledBack(500, Error("Internal server error"))
    ELSE UpdateFields(id, data, games[id])

\* PUT /api/games/<id>
update_game(id, data) ==
    IF id \notin DOMAIN games
    THEN Outcome(ErrorResponse(404, Error("Game not found")), games, Clean)
    ELSE IF data.kind = "none" \/ (data.kind = "object" /\ IsEmpty(data))
    THEN Outcome(ErrorResponse(400, Error("No JSON data provided")), games, Clean)
    ELSE IF data.kind # "object"
    THEN RolledBack(500, Error("Internal server error"))
    ELSE UpdateFields(id, data, games[id])

\* Faulty variant of delete_game: the delete is not restricted to the id.
delete_game_Unfiltered(id) ==
    IF id \notin DOMAIN games
    THEN Outcome(ErrorResponse(404, Error("Game not found")), games, Clean)
    ELSE Outcome([Response(200, NoError, {}) EXCEPT !.message = "Game deleted successfully"],
                 <<>>, Clean)

\* Faulty variant of delete_game: the delete is not committed.
delete_game_NoCommit(id) ==
    IF id \notin DOMAIN games
    THEN Outcome(ErrorResponse(404, Error("Game not found")), games, Clean)
    ELSE Outcome([Response(200, NoError, {}) EXCEPT !.message = "Game deleted successfully"],
                 games, Clean)

\* DELETE /api/games/<id>
delete_game(id) ==
    IF id \notin DOMAIN games
    THEN Outcome(ErrorResponse(404, Error("Game not found")), games, Clean)
    ELSE Outcome([Response(200, NoError, {}) EXCEPT !.message = "Game deleted successfully"],
                 [i \in DOMAIN games \ {id} |-> games[i]], Clean)

-----------------------------------------------------------------------------
\* The seeded store and the request inputs.

SeedTitle == JStr(<<"P", "a", "n", "i", "c">>)

SeedDescription == JStr(<<"B", "u", "i", "l", "d", " ", "y", "o", "u", "r", " ", "o", "p", "s">>)

\* Stripped length 2, with surrounding blanks.
PaddedTitle == JStr(<<" ", "U", "p", " ">>)

\* Stripped length 1.
ShortTitle == JStr(<<" ", "x", " ">>)

\* Stripped length 10, with surrounding blanks.
PaddedDescription == JStr(<<" ", "N", "e", "w", " ", "r", "e", "l", "e", "a", "s", " ">>)

\* Stripped length 9, length 11.
ShortDescription == JStr(<<" ", "T", "o", "o", " ", "s", "h", "o", "r", "t", " ">>)

SeedPublishers == (1 :> "DevGames Inc") @@ (2 :> "Scrum Masters")

SeedCategories == (1 :> "Strategy") @@ (2 :> "Card Game")

SeedGames == (1 :> Row(SeedTitle, SeedDescription, JNum(5), 1, 1))

\* An id no publisher and no category has.
UnknownId == JNum(999)

NoBody ==
    [kind |-> "none", title |-> Absent, description |-> Absent, star_rating |-> Absent,
     category_id |-> Absent, publisher_id |-> Absent]

\* A body that parses to a JSON number.
NumberBody == [NoBody EXCEPT !.kind = "number"]

ObjectBodies ==
    [kind : {"object"},
     title : {Absent, PaddedTitle, ShortTitle},
     description : {Absent, PaddedDescription, ShortDescription, JNull},
     star_rating : {Absent, JNull, JNum(5)},
     category_id : {Absent, JNum(2), UnknownId},
     publisher_id : {Absent, JNum(2), UnknownId}]

Bodies == {NoBody, NumberBody} \cup ObjectBodies

Request(op, id, data) == [op |-> op, id |-> id, body |-> data]

NoRequest == Request("none", 0, NoBody)

NoResponse == Response(0, NoError, {})

-----------------------------------------------------------------------------
\* The state machine.

Init ==
    /\ games = SeedGames
    /\ publishers = SeedPublishers
    /\ categories = SeedCategories
    /\ session = Clean
    /\ pc = "idle"
    /\ req = NoRequest
    /\ resp = NoResponse
    /\ before = SeedGames
    /\ deleted = {}

\* A handler has run: its response is returned, its writes are in place.
Respond(request, out) ==
    /\ pc' = "responded"
    /\ req' = request
    /\ resp' = out.resp
    /\ games' = out.games
    /\ session' = out.session
    /\ before' = games
    /\ UNCHANGED <<publishers, categories>>

GetGames ==
    /\ pc = "idle"
    /\ Respond(Request("list", 0, NoBody), Outcome(get_games, games, Clean))
    /\ UNCHANGED deleted

GetGame ==
    /\ pc = "idle"
    /\ \E id \in GameIds :
          Respond(Request("get", id, NoBody), Outcome(get_game(id), games, Clean))
    /\ UNCHANGED deleted

\* The key of the new row is any unused one: the store may reuse the key of a
\* deleted row or not.  With every key in use no row can be added.
CreateGame ==
    /\ pc = "idle"
    /\ \E data \in Bodies, new_id \in GameIds \ DOMAIN games :
          Respond(Request("create", 0, data), create_game(data, new_id))
    /\ UNCHANGED deleted

UpdateGame ==
    /\ pc = "idle"
    /\ \E id \in GameIds, data \in Bodies :
          Respond(Request("update", id, data), update_game(id, data))
    /\ UNCHANGED deleted

DeleteGame ==
    /\ pc = "idle"
    /\ \E id \in GameIds :
          Respond(Request("delete", id, NoBody), delete_game(id))
    /\ UNCHANGED deleted

\* The request ends: the scoped session is released, and what it had not
\* committed is discarded.
EndRequest ==
    /\ pc = "responded"
    /\ pc' = "idle"
    /\ session' = Clean
    /\ req' = NoRequest
    /\ resp' = NoResponse
    /\ before' = games
    /\ deleted' = IF req.op = "delete" /\ resp.status = 200 THEN deleted \cup {req.id}
                  ELSE IF req.op = "create" /\ resp.status = 201
                  THEN deleted \ {g.id : g \in resp.games}
                  ELSE deleted
    /\ UNCHANGED <<games, publishers, categories>>

Next == GetGames \/ GetGame \/ CreateGame \/ UpdateGame \/ DeleteGame \/ EndRequest

Spec == Init /\ [][Next]_vars

-----------------------------------------------------------------------------
\* The validation helper on its own: any field label, value, minimum length
\* and allow_none flag.

\* Strings of up to MaxStrLen characters are validated.
MaxStrLen == 3

Strings == UNION {[1..n -> {" ", "a"}] : n \in 0..MaxStrLen}

Values == {JNull, JNum(7)} \cup {JStr(chars) : chars \in Strings}

MinLengths == 0..(MaxStrLen + 1)

ValidateCall(field_name, value, min_length, allow_none) ==
    [op |-> "validate", field_name |-> field_name, value |-> value,
     min_length |-> min_length, allow_none |-> allow_none]

InitValidate ==
    /\ games = SeedGames
    /\ publishers = SeedPublishers
    /\ categories = SeedCategories
    /\ session = Clean
    /\ pc = "call"
    /\ req \in {ValidateCall(f, v, m, a) : f \in {"Game title", "Description"}, v \in Values,
                                          m \in MinLengths, a \in BOOLEAN}
    /\ resp = NoResponse
    /\ before = SeedGames
    /\ deleted = {}

Validate ==
    /\ pc = "call"
    /\ pc' = "returned"
    /\ resp' = validate_string_length(req.field_name, req.value, req.min_length,
                                      req.allow_none)
    /\ UNCHANGED <<games, publishers, categories, session, req, before, deleted>>

SpecValidate == InitValidate /\ [][Validate]_vars

-----------------------------------------------------------------------------
\* The read handlers over any store, among them stores in which a game names
\* a publisher or a category that has no row.
\* The store does not enforce the foreign keys, and publisher and category
\* rows are written outside the games routes.

StoredRows ==
    {Row(SeedTitle, SeedDescription, r, c, p) :
        r \in {JNull, JNum(5)}, c \in DOMAIN SeedCategories, p \in DOMAIN SeedPublishers}

SubTables(table) == {[i \in D |-> table[i]] : D \in SUBSET DOMAIN table}

InitStore ==
    /\ games \in UNION {[D -> StoredRows] : D \in SUBSET GameIds}
    /\ publishers \in SubTables(SeedPublishers)
    /\ categories \in SubTables(SeedCategories)
    /\ session = Clean
    /\ pc = "idle"
    /\ req = NoRequest
    /\ resp = NoResponse
    /\ before = games
    /\ deleted = {}

NextRead == GetGames \/ GetGame \/ EndRequest

SpecStore == InitStore /\ [][NextRead]_vars

-----------------------------------------------------------------------------
\* Properties.

ErrorStatus == {400, 404, 409, 500}

Responded(op) == pc = "responded" /\ req.op = op

\* A create or update has just returned an error response.
FailedWrite == pc = "responded" /\ req.op \in {"create", "update"} /\ resp.status \in ErrorStatus

\* The body names a publisher or a category that does not exist.
UnknownPublisher(data) == Has(data, "publisher_id") /\ data.publisher_id.n \notin DOMAIN publishers

UnknownCategory(data) == Has(data, "category_id") /\ data.category_id.n \notin DOMAIN categories

HasRequired(data) == \A i \in 1..Len(required_fields) : Has(data, required_fields[i])

\* C1: a create or update that ends in an error response (400, 404, 409, 500)
\* leaves the committed games table as it found it, both when the handler
\* returns and when the request then ends, so that a later list or get-by-id
\* reads the rows that were there before the request.
C1_NoPartialWrite ==
    [][/\ FailedWrite' => games' = games
       /\ FailedWrite => games' = games /\ get_games' = get_games]_vars

\* C1 witness: an update answered 404 after it had assigned fields the
\* session still holds.
C1_Witness == FailedWrite /\ req.op = "update" /\ resp.status = 404 /\ session # Clean

\* C2 (as claimed): an update of an existing game whose body names an unknown
\* publisher_id or category_id is answered 404 and leaves the game as it was,
\* whatever else the body carries.
C2_Claim ==
    (/\ Responded("update")
     /\ req.id \in DOMAIN before
     /\ req.body.kind = "object"
     /\ UnknownPublisher(req.body) \/ UnknownCategory(req.body))
    => resp.status = 404 /\ games = before

\* C3 (as claimed): when create, update or delete returns 400, 404, 409 or 500,
\* the session holds no uncommitted entity state.
C3_Claim ==
    (pc = "responded" /\ req.op \in {"create", "update", "delete"}
        /\ resp.status \in ErrorStatus)
    => session = Clean

\* C4: every committed game references an existing publisher and an existing
\* category.
C4_ReferencesExist ==
    \A id \in DOMAIN games :
        /\ games[id].publisher_id \in DOMAIN publishers
        /\ games[id].category_id \in DOMAIN categories

\* C4 witness: an update has committed a change of publisher and category.
C4_Witness ==
    /\ Responded("update") /\ resp.status = 200
    /\ games[req.id].publisher_id # before[req.id].publisher_id
    /\ games[req.id].category_id # before[req.id].category_id

\* A valid create payload whose publisher and category exist.
ValidCreate(data) ==
    /\ data.kind = "object"
    /\ HasRequired(data)
    /\ data.title.t = "str" /\ Len(Strip(data.title.s)) >= 2
    /\ data.description.t = "str" /\ Len(Strip(data.description.s)) >= 10
    /\ data.publisher_id.n \in DOMAIN publishers
    /\ data.category_id.n \in DOMAIN categories

\* What get-by-id on `id` returns carries the fields `data` sent.
GetReturnsSent(id, data) ==
    /\ get_game(id).status = 200
    /\ \A g \in get_game(id).games :
          /\ g.id = id
          /\ g.title = data.title
          /\ g.description = data.description
          /\ g.starRating = (IF Has(data, "star_rating") THEN data.star_rating ELSE JNull)
          /\ {p.id : p \in g.publisher} = {data.publisher_id.n}
          /\ {c.id : c \in g.category} = {data.category_id.n}

\* C5: a valid create payload whose publisher and category exist is answered
\* 201, exactly one row is added to the table, and get-by-id on the returned
\* id returns the title, description, starRating, publisher id and category
\* id that were sent.
C5_CreateRoundTrip ==
    (Responded("create") /\ ValidCreate(req.body))
    => /\ resp.status = 201
       /\ Cardinality(resp.games) = 1
       /\ \A created \in resp.games :
             /\ created.id \notin DOMAIN before
             /\ DOMAIN games = DOMAIN before \cup {created.id}
             /\ \A i \in DOMAIN before : games[i] = before[i]
             /\ GetReturnsSent(created.id, req.body)

\* C5 witness: a created game whose title has surrounding blanks and whose
\* star_rating was not sent.
C5_Witness ==
    /\ Responded("create") /\ ValidCreate(req.body) /\ resp.status = 201
    /\ req.body.title = PaddedTitle
    /\ ~Has(req.body, "star_rating")

\* C6: a create whose non-empty JSON object lacks a required key is answered
\* 400 "Missing required fields" with the missing keys, and no row is
\* persisted.
C6_MissingFields ==
    (/\ Responded("create")
     /\ req.body.kind = "object"
     /\ ~IsEmpty(req.body)
     /\ ~HasRequired(req.body))
    => /\ resp.status = 400
       /\ resp.error.msg = "Missing required fields"
       /\ resp.error.missing # <<>>
       /\ \A i \in 1..Len(resp.error.missing) : ~Has(req.body, resp.error.missing[i])
       /\ games = before

\* C6 witness: only publisher_id is missing.
C6_Witness ==
    /\ Responded("create") /\ resp.status = 400
    /\ Has(req.body, "title") /\ Has(req.body, "description")
    /\ Has(req.body, "category_id") /\ ~Has(req.body, "publisher_id")

\* C7: a create that has the four required keys and names an unknown publisher
\* or category is answered 404, "Publisher not found" or "Category not found",
\* and no row is persisted.
C7_CreateUnknownReference ==
    (/\ Responded("create")
     /\ req.body.kind = "object"
     /\ HasRequired(req.body)
     /\ UnknownPublisher(req.body) \/ UnknownCategory(req.body))
    => /\ resp.status = 404
       /\ resp.error.msg = (IF UnknownPublisher(req.body)
                            THEN "Publisher not found" ELSE "Category not found")
       /\ games = before

\* C7 witness: the category is unknown and the title is too short.
C7_Witness ==
    /\ Responded("create") /\ HasRequired(req.body)
    /\ ~UnknownPublisher(req.body) /\ UnknownCategory(req.body)
    /\ req.body.title = ShortTitle
    /\ resp.status = 404

\* The value an update leaves in an attribute: the body's when present, the
\* previous one otherwise.
Patched(data, field, previous) == IF Has(data, field) THEN data[field] ELSE previous

PatchedId(data, field, previous) == IF Has(data, field) THEN data[field].n ELSE previous

\* C8: after an update answered 200, each of title, description, star_rating,
\* publisher_id, category_id present in the body has the body's value, each
\* absent one its previous value, the game has the id it had, and every other
\* row is unchanged.
C8_UpdateFrame ==
    (Responded("update") /\ resp.status = 200)
    => /\ req.id \in DOMAIN before
       /\ DOMAIN games = DOMAIN before
       /\ \A i \in DOMAIN before \ {req.id} : games[i] = before[i]
       /\ {g.id : g \in resp.games} = {req.id}
       /\ games[req.id] =
             Row(Patched(req.body, "title", before[req.id].title),
                 Patched(req.body, "description", before[req.id].description),
                 Patched(req.body, "star_rating", before[req.id].star_rating),
                 PatchedId(req.body, "category_id", before[req.id].category_id),
                 PatchedId(req.body, "publisher_id", before[req.id].publisher_id))

\* C8 witness: a partial update of one of two games changed its title and
\* kept a rating it did not send.
C8_Witness ==
    /\ Responded("update") /\ resp.status = 200
    /\ Cardinality(DOMAIN games) = 2
    /\ Has(req.body, "title") /\ ~Has(req.body, "star_rating")
    /\ games[req.id].title # before[req.id].title
    /\ games[req.id].star_rating # JNull

\* C9: get-by-id answers 404 {"error": "Game not found"} exactly when no
\* committed game has the id, and otherwise 200 with that game's projection.
C9_GetById ==
    Responded("get")
    => IF req.id \in DOMAIN games
       THEN resp.status = 200 /\ resp.games = {to_dict(req.id, games[req.id])}
       ELSE resp.status = 404 /\ resp.error = Error("Game not found") /\ resp.games = {}

\* C9 witness: the id is unknown while another game exists.
C9_Witness == Responded("get") /\ resp.status = 404 /\ DOMAIN games # {}

\* C10: once a delete of an id has been answered 200, and until a create
\* returns that id, get-by-id and delete on it are answered 404 "Game not
\* found".
C10_DeleteThenNotFound ==
    (pc = "responded" /\ req.op \in {"get", "delete"} /\ req.id \in deleted)
    => resp.status = 404 /\ resp.error = Error("Game not found")

\* C10 witness: a second delete of a deleted id.
C10_Witness == Responded("delete") /\ req.id \in deleted /\ resp.status = 404

\* C11: a delete answered 200 removes the row of the given id and no other,
\* a delete of an id that has no row is answered 404 and changes no row, and
\* neither touches a publisher or a category.
C11_DeleteFrame ==
    [][(pc' = "responded" /\ req'.op = "delete")
       => /\ publishers' = publishers
          /\ categories' = categories
          /\ IF req'.id \in DOMAIN games
             THEN /\ resp'.status = 200
                  /\ DOMAIN games' = DOMAIN games \ {req'.id}
                  /\ \A i \in DOMAIN games' : games'[i] = games[i]
             ELSE resp'.status = 404 /\ games' = games]_vars

\* C11 witness: one of two games has been deleted.
C11_Witness ==
    /\ Responded("delete") /\ resp.status = 200
    /\ Cardinality(DOMAIN before) = 2
    /\ Cardinality(DOMAIN games) = 1

\* The body is missing, unparsable or empty.
NoData(data) == data.kind = "none" \/ (data.kind = "object" /\ \A f \in AllFields : data[f] = Absent)

\* C13: a create, or an update of an existing game, whose body is missing,
\* unparsable or empty is answered 400 {"error": "No JSON data provided"} and
\* leaves every row as it was.
C13_NoJsonData ==
    [][(/\ pc' = "responded"
        /\ req'.op = "create" \/ (req'.op = "update" /\ req'.id \in DOMAIN games)
        /\ NoData(req'.body))
       => /\ resp'.status = 400
          /\ resp'.error = Error("No JSON data provided")
          /\ games' = games
          /\ publishers' = publishers
          /\ categories' = categories]_vars

\* C13 witness: an update of an existing game with an empty JSON object.
C13_Witness ==
    /\ Responded("update") /\ req.id \in DOMAIN before
    /\ req.body.kind = "object" /\ NoData(req.body)
    /\ resp.status = 400

\* C15: an update addressed to an id that has no row is answered 404 "Game not
\* found" whatever the body is, and changes nothing.
C15_UpdateUnknownGame ==
    (Responded("update") /\ req.id \notin DOMAIN before)
    => /\ resp.status = 404
       /\ resp.error = Error("Game not found")
       /\ games = before
       /\ session = Clean

\* C15 witness: the body is missing, which for an existing game is a 400.
C15_Witness ==
    /\ Responded("update") /\ req.id \notin DOMAIN before
    /\ req.body.kind = "none"
    /\ resp.status = 404

\* The title and the description of the body pass the Game validators.
ValidTitle(data) == data.title.t = "str" /\ Len(Strip(data.title.s)) >= 2

ValidDescription(data) ==
    \/ data.description.t = "null"
    \/ data.description.t = "str" /\ Len(Strip(data.description.s)) >= 10

\* C16: create answers with the first of its checks that fails, in the order
\* empty body (400), missing required keys (400), publisher (404), category
\* (404), field validation (400), and inserts only when all pass.
C16_CreateOrder ==
    (Responded("create") /\ req.body.kind # "number")
    => IF NoData(req.body)
       THEN resp.status = 400 /\ resp.error.msg = "No JSON data provided"
       ELSE IF ~HasRequired(req.body)
       THEN resp.status = 400 /\ resp.error.msg = "Missing required fields"
       ELSE IF UnknownPublisher(req.body)
       THEN resp.status = 404 /\ resp.error.msg = "Publisher not found"
       ELSE IF UnknownCategory(req.body)
       THEN resp.status = 404 /\ resp.error.msg = "Category not found"
       ELSE IF ~ValidTitle(req.body)
       THEN resp.status = 400 /\ resp.error.field = "Game title"
       ELSE IF ~ValidDescription(req.body)
       THEN resp.status = 400 /\ resp.error.field = "Description"
       ELSE resp.status \in {201, 409} /\ (resp.status = 201 <=> games # before)

\* C16 witness: publisher and category are both unknown and the title is too
\* short; the answer is "Publisher not found".
C16_Witness ==
    /\ Responded("create") /\ HasRequired(req.body)
    /\ UnknownPublisher(req.body) /\ UnknownCategory(req.body)
    /\ req.body.title = ShortTitle
    /\ resp.status = 404

\* The body carries the key description with a null value.
NullDescription(data) == data.kind = "object" /\ data.description = JNull

\* C17 (as claimed): a create that has its required keys and an existing
\* publisher and category, or an update of an existing game, whose body
\* carries a null description is not answered 400 by the validators: it is
\* answered 409 "Database integrity error", and no row is persisted or mutated.
C17_Claim ==
    (/\ pc = "responded"
     /\ \/ /\ req.op = "create"
           /\ HasRequired(req.body)
           /\ ~UnknownPublisher(req.body) /\ ~UnknownCategory(req.body)
        \/ req.op = "update" /\ req.id \in DOMAIN before
     /\ NullDescription(req.body))
    => /\ resp.status = 409
       /\ resp.error = Error("Database integrity error")
       /\ games = before

\* The request reaches the write: a create has its required keys, an existing
\* publisher and category and a valid title; an update addresses an existing
\* game and carries no invalid title.
ReachesWrite ==
    \/ /\ req.op = "create"
       /\ HasRequired(req.body)
       /\ ~UnknownPublisher(req.body) /\ ~UnknownCategory(req.body)
       /\ ValidTitle(req.body)
    \/ /\ req.op = "update"
       /\ req.id \in DOMAIN before
       /\ Has(req.body, "title") => ValidTitle(req.body)

\* C17 (amended): a null description never fails the description validator;
\* a create or update that carries one and reaches the write is answered 409
\* "Database integrity error"; and in every case no row is persisted or
\* mutated.
C17_NullDescription ==
    (pc = "responded" /\ req.op \in {"create", "update"} /\ NullDescription(req.body))
    => /\ games = before
       /\ resp.error.field # "Description"
       /\ ReachesWrite
          => resp.status = 409 /\ resp.error = Error("Database integrity error")

\* C17 witness: a create with a null description and everything else valid.
C17_Witness ==
    /\ Responded("create") /\ NullDescription(req.body) /\ ReachesWrite
    /\ resp.status = 409

\* The length of `s` without its leading and trailing blanks.
StrippedLen(s) ==
    LET inked == {i \in 1..Len(s) : s[i] # " "}
    IN  IF inked = {} THEN 0
        ELSE (CHOOSE i \in inked : \A j \in inked : j <= i)
             - (CHOOSE i \in inked : \A j \in inked : i <= j) + 1

\* C12: validate_string_length returns the value as given exactly when it is
\* None with allow_none set, or a string of stripped length >= min_length;
\* otherwise it fails naming the field: "cannot be empty" for None, else "must
\* be a string" for a non-string, else "must be at least N characters".
C12_ValidateStringLength ==
    pc = "returned"
    => IF \/ req.value.t = "null" /\ req.allow_none
          \/ req.value.t = "str" /\ StrippedLen(req.value.s) >= req.min_length
       THEN resp.ok /\ resp.value = req.value /\ resp.error = NoError
       ELSE /\ ~resp.ok
            /\ resp.error.field = req.field_name
            /\ resp.error.msg =
                  (IF req.value.t = "null" THEN "cannot be empty"
                   ELSE IF req.value.t # "str" THEN "must be a string"
                   ELSE "must be at least N characters")
            /\ req.value.t = "str" => resp.error.min = req.min_length

\* C12 witness: a string with surrounding blanks is accepted and returned
\* with them.
C12_Witness ==
    /\ pc = "returned" /\ resp.ok
    /\ req.value.t = "str" /\ Len(req.value.s) = 3
    /\ req.value.s[1] = " " /\ req.value.s[3] = " "
    /\ req.min_length = 1
    /\ resp.value.s = req.value.s

\* C14: the list holds one entry for each game row and no other, also for a
\* game whose publisher or category has no row; an entry carries the {id,
\* name} summary of the related row, or null when there is none, and the
\* rating under starRating.
C14_ListAll ==
    Responded("list")
    => /\ resp.status = 200
       /\ {g.id : g \in resp.games} = DOMAIN games
       /\ Cardinality(resp.games) = Cardinality(DOMAIN games)
       /\ \A g \in resp.games :
             /\ g.title = games[g.id].title
             /\ g.description = games[g.id].description
             /\ g.starRating = games[g.id].star_rating
             /\ g.publisher = {[id |-> i, name |-> publishers[i]] :
                                  i \in {games[g.id].publisher_id} \cap DOMAIN publishers}
             /\ g.category = {[id |-> i, name |-> categories[i]] :
                                 i \in {games[g.id].category_id} \cap DOMAIN categories}

\* C14 witness: a listed game has a publisher row and no category row.
C14_Witness ==
    /\ Responded("list")
    /\ \E g \in resp.games : g.publisher # {} /\ g.category = {}

====
